---- MODULE Spec2Model ----
(***************************************************************************)
(* Model of the tutoring orchestration of agentoly-basEd:                  *)
(*   app/api/v1/endpoints/tutoring.py  (start, interact, batch run, store) *)
(*   app/agents/understanding_agent.py (infer_understanding)               *)
(*   app/agents/tutor_agent.py         (generate_tutoring)                 *)
(*   app/utils/logger.py               (ConversationLogger)                *)
(*   app/graph/tutoring_graph.py       (the graph and its routers)         *)
(*   app/api/v1/endpoints/items.py     (the items endpoint)                *)
(*                                                                         *)
(* The handlers are asyncio coroutines: code between two awaits runs       *)
(* atomically, so each action below is one such stretch of a handler.      *)
(* A TutoringState is a Python dict held by reference: the store maps a    *)
(* conversation id to a dict object, and a suspended handler keeps the     *)
(* reference it read before its await.                                     *)
(*                                                                         *)
(* Specifications: Spec (each conversation id issued once, handlers        *)
(* overlap), SpecReissue (an id may be issued again, one handler at a      *)
(* time), SpecInfer (the assessments of one conversation, step by step,    *)
(* over every answer of the chain), SpecDown (the oracle unavailable,      *)
(* turns served fairly), SpecTeach (the generator may raise, a reply may   *)
(* be empty), SpecTwo (two conversation ids issued, handlers overlap),     *)
(* SpecGraph (tutoring_graph run on the stored record between turns),      *)
(* SpecGraphLive (the same, its nodes run fairly), SpecItems (the items    *)
(* endpoint), SpecBatch (run_tutoring_conversation alone, its awaits       *)
(* served fairly), SpecAuto (automated_tutoring over its pairs), SpecStart *)
(* (start_tutoring and its errors) and SpecLog (the log file written and   *)
(* read back).                                                             *)
(*                                                                         *)
(* Encodings: Python None is None (-1) for the optional numbers, EvNone    *)
(* for the optional evidence string and NoMsg for an optional message;     *)
(* confidences are in tenths (0.7 is 7); a message content is its source   *)
(* and its length in characters; a JSON value of the oracle is a type tag  *)
(* and a number [t, v].                                                    *)
(***************************************************************************)
EXTENDS Integers, Sequences, FiniteSets, TLC

\* ------------------------------------------------------------------ bounds
\* exchanges the interlocutor processes, all conversations together
MaxExchanges == 2
\* conversation ids a caller may name
ConvIds == {"c1", "c2"}
\* conversation ids the interlocutor's start response carries
IssuedIds == {"c1"}
\* handlers served concurrently (/interact requests and batch runs)
Reqs == 1..2
\* max_turns values the interlocutor's start response carries
MaxTurnsChoices == {1, 2}
\* items the items endpoint's list holds at most
MaxItems == 3
\* names a caller gives an item
ItemNames == {"a", "b"}
\* turns of the conversation whose assessments are taken step by step
MaxStudentTurns == 4

\* ------------------------------------------------------- program constants
None == -1
DefaultLevel == 3
MinLevel == 1
MaxLevel == 5
MaxConfidence == 10
LockConfidence == 7
FallbackConfidence == 3
\* the default of state.get("understanding_confidence", 0.5)
DefaultConfidence == 5
SubstantialLen == 100
BatchTurns == 10
EnoughStudentTurns == 3
EnoughTeaching == 2
EarlyTurns == 2
InferEvery == 3
LogIndent == 2

EvNone == "<None>"
EvUnable == "Unable to assess - using previous/default level"
NoMsg == [src |-> "None", len |-> 0]

\* ------------------------------------------------------------------ values
\* a JSON value as the oracle's parser returns it
JInt(n) == [t |-> "int", v |-> n]
JFloat(tenths) == [t |-> "float", v |-> tenths]
JBool(b) == [t |-> "bool", v |-> IF b THEN 1 ELSE 0]
JNull == [t |-> "null", v |-> 0]
JStr == [t |-> "str", v |-> 0]

\* isinstance(x, int): bool is a subclass of int
IsInt(x) == x.t \in {"int", "bool"}
\* isinstance(x, (int, float))
IsNumber(x) == x.t \in {"int", "bool", "float"}
\* the number in tenths, the unit confidences are kept in
Tenths(x) == IF x.t = "float" THEN x.v ELSE 10 * x.v

TutorTurn(content) == [role |-> "tutor", content |-> content]
StudentTurn(content) == [role |-> "student", content |-> content]

\* [msg for msg in messages if msg.get("role") == "student"]
StudentResponses(messages) ==
    {i \in 1..Len(messages) : messages[i].role = "student"}

\* ------------------------------------------------------ infer_understanding
\* FilterMessages without the break: the loop runs to the end of the transcript
RECURSIVE FilterMessagesAll(_, _, _)
FilterMessagesAll(messages, i, acc) ==
    IF i > Len(messages) THEN acc
    ELSE LET msg == messages[i] IN
         FilterMessagesAll(messages, i + 1,
            [filtered |-> Append(acc.filtered, msg),
             tutor_teaching_count |-> acc.tutor_teaching_count
                 + (IF msg.role = "tutor" /\ msg.content.len > SubstantialLen
                    THEN 1 ELSE 0),
             student_response_count |-> acc.student_response_count
                 + (IF msg.role = "student" THEN 1 ELSE 0)])

\* the filter loop of infer_understanding: the turns kept for the oracle and
\* the two counters, from message i on
RECURSIVE FilterMessages(_, _, _)
FilterMessages(messages, i, acc) ==
    IF i > Len(messages) THEN acc
    ELSE LET msg == messages[i] IN
         IF msg.role = "tutor"
         THEN FilterMessages(messages, i + 1,
                [filtered |-> Append(acc.filtered, msg),
                 tutor_teaching_count |-> acc.tutor_teaching_count
                     + (IF msg.content.len > SubstantialLen THEN 1 ELSE 0),
                 student_response_count |-> acc.student_response_count])
         ELSE LET nxt == [filtered |-> Append(acc.filtered, msg),
                          tutor_teaching_count |-> acc.tutor_teaching_count,
                          student_response_count |-> acc.student_response_count + 1]
              IN IF nxt.student_response_count >= EnoughStudentTurns
                    \/ nxt.tutor_teaching_count >= EnoughTeaching
                 THEN nxt
                 ELSE FilterMessages(messages, i + 1, nxt)

Filtered(messages) ==
    FilterMessages(messages, 1,
        [filtered |-> <<>>, tutor_teaching_count |-> 0, student_response_count |-> 0])

\* InferFallback that never asks for the lock
InferFallbackNoLock(state, f) ==
    [understanding_level |->
        IF state.understanding_level # None THEN state.understanding_level
        ELSE DefaultLevel,
     understanding_confidence |->
        IF state.understanding_confidence # None THEN state.understanding_confidence
        ELSE FallbackConfidence,
     understanding_evidence |->
        IF state.understanding_evidence \notin {EvNone, ""}
        THEN state.understanding_evidence ELSE EvUnable,
     should_lock |-> FALSE,
     invoked |-> TRUE,
     handed |-> f.filtered]

\* the except branch: previous values, or the defaults
InferFallback(state, f) ==
    [understanding_level |->
        IF state.understanding_level # None THEN state.understanding_level
        ELSE DefaultLevel,
     understanding_confidence |->
        IF state.understanding_confidence # None THEN state.understanding_confidence
        ELSE FallbackConfidence,
     understanding_evidence |->
        IF state.understanding_evidence \notin {EvNone, ""}
        THEN state.understanding_evidence ELSE EvUnable,
     should_lock |-> state.understanding_level # None /\ f.student_response_count >= 1,
     invoked |-> TRUE,
     handed |-> f.filtered]

\* ValidLevel without the validation
ValidLevelUnchecked(state, level) == level.v

\* level validation of the try branch
ValidLevel(state, level) ==
    IF ~IsInt(level) \/ level.v < MinLevel \/ level.v > MaxLevel
    THEN IF state.understanding_level # None THEN state.understanding_level
         ELSE DefaultLevel
    ELSE level.v

\* confidence validation of the try branch; the state always has the key, so
\* the previous confidence is the stored one, None included
ValidConfidence(state, confidence) ==
    IF confidence.t = "null" \/ ~IsNumber(confidence)
       \/ Tenths(confidence) < 0 \/ Tenths(confidence) > MaxConfidence
    THEN state.understanding_confidence
    ELSE Tenths(confidence)

\* infer_understanding(state) with the oracle's answer orc; invoked and handed
\* record whether the chain was invoked and on which turns
InferUnderstanding(state, orc) ==
    IF StudentResponses(state.messages) = {}
    THEN [understanding_level |-> state.understanding_level,
          understanding_confidence |-> state.understanding_confidence,
          understanding_evidence |-> state.understanding_evidence,
          should_lock |-> FALSE,
          invoked |-> FALSE,
          handed |-> <<>>]
    ELSE LET f == Filtered(state.messages)
             level == ValidLevel(state, orc.level)
             confidence == ValidConfidence(state, orc.confidence)
             derive == orc.should_lock.t # "bool"
         IN IF orc.raised \/ (derive /\ confidence = None)
            THEN InferFallback(state, f)
            ELSE [understanding_level |-> level,
                  understanding_confidence |-> confidence,
                  understanding_evidence |->
                      IF orc.evidence \notin {EvNone, ""} THEN orc.evidence
                      ELSE state.understanding_evidence,
                  should_lock |->
                      IF derive
                      THEN confidence >= LockConfidence
                           /\ f.student_response_count >= 1
                           /\ f.tutor_teaching_count < EnoughTeaching
                      ELSE orc.should_lock.v = 1,
                  invoked |-> TRUE,
                  handed |-> f.filtered]

\* -------------------------------------------------------- generate_tutoring
\* the fixed greeting generate_tutoring returns when its chain raises
FallbackGreeting == [src |-> "fallback", len |-> 90]
GeneratedMessage == [src |-> "generated", len |-> SubstantialLen + 1]
\* what the generator's chain can do: answer with a message, or raise
GenOk == [raised |-> FALSE, content |-> GeneratedMessage]
GenRaised == [raised |-> TRUE, content |-> NoMsg]

\* GenerateTutoring without the except clause's greeting
GenerateTutoringNoFallback(state, g) ==
    [tutor_message |-> g.content,
     opener |-> state.student_response = NoMsg \/ state.student_response.len = 0]

\* generate_tutoring(state) with the chain's outcome g: the update it returns,
\* and whether the chain was given the conversation-opener context
GenerateTutoring(state, g) ==
    [tutor_message |-> IF g.raised THEN FallbackGreeting ELSE g.content,
     opener |-> state.student_response = NoMsg \/ state.student_response.len = 0]

\* ----------------------------------------------------------- the oracle
\* answers of the assessment chain: it raises; a valid answer that locks; a
\* valid answer that does not; a malformed answer
OracleResults ==
    {[raised |-> TRUE, level |-> JNull, confidence |-> JNull,
      evidence |-> EvNone, should_lock |-> JNull],
     [raised |-> FALSE, level |-> JInt(2), confidence |-> JFloat(8),
      evidence |-> "e1", should_lock |-> JBool(TRUE)],
     [raised |-> FALSE, level |-> JInt(4), confidence |-> JFloat(5),
      evidence |-> "", should_lock |-> JBool(FALSE)],
     [raised |-> FALSE, level |-> JInt(7), confidence |-> JStr,
      evidence |-> EvNone, should_lock |-> JNull]}

\* --------------------------------------------------------------- the state
VARIABLES
    objs,                 \* the heap: the TutoringState dicts alive, by reference
    conversation_states,  \* the store: conversation id -> reference (0: absent)
    req,                  \* each handler being served
    srv,                  \* the interlocutor: per conversation, turn number and done
    log_file,             \* conversations.jsonl, one entry per write
    last,                 \* the step just taken and what it reported
    assess,               \* an infer_understanding call on its own: its argument,
                          \* the chain's answer and what it returned
    graph,                \* a run of tutoring_graph: the node to run next, the
                          \* graph's state, and what the last router returned
    items_db,             \* the items endpoint's list
    auto                  \* a call of automated_tutoring: its position and its lists

vars == <<objs, conversation_states, req, srv, log_file, last, assess, graph,
          items_db, auto>>

\* the dict start_tutoring and run_tutoring_conversation build
InitialState(cid, max_turns) ==
    [conversation_id |-> cid,
     messages |-> <<>>,
     understanding_level |-> None,
     understanding_confidence |-> None,
     understanding_evidence |-> EvNone,
     understanding_level_locked |-> FALSE,
     turn_count |-> 0,
     max_turns |-> max_turns,
     tutor_message |-> NoMsg,
     student_response |-> NoMsg,
     conversation_ended |-> FALSE,
     should_lock |-> {}]

\* references: every dict the store or a suspended handler can hold, and one more
Slots == 1..(Cardinality(IssuedIds) + Cardinality(Reqs) + 1)
Free == [free |-> TRUE]
NoResp == [student_response |-> NoMsg, turn_number |-> 0, is_complete |-> FALSE]
IdleReq == [pc |-> "idle", kind |-> "", cid |-> "", obj |-> 0, tutor_message |-> NoMsg,
            resp |-> NoResp, snap |-> Free, turn |-> 0, limit |-> 0]
\* no infer_understanding call is looked at on its own
NoAssess == [pc |-> "none"]
\* automated_tutoring is not running
NoAuto == [pc |-> "none"]
\* tutoring_graph is not running
NoGraph == [node |-> "none"]

\* the dicts still referenced by the store or by a handler; the others are
\* garbage and their slots free
Collect(heap, store, handlers) ==
    [o \in Slots |->
        IF o \in {store[c] : c \in ConvIds} \cup {handlers[r].obj : r \in Reqs}
        THEN heap[o] ELSE Free]
NewSlot == CHOOSE o \in Slots : objs[o] = Free /\ \A p \in Slots : objs[p] = Free => o <= p

\* what a step reports: the operation, the conversation id and dict it worked
\* on, its outcome, whether it invoked the generator and the oracle, and whether
\* the dict is as it was when the turn began
Step(op, cid, obj, outcome, generated, oracle, intact) ==
    [op |-> op, cid |-> cid, obj |-> obj, outcome |-> outcome,
     generated |-> generated, oracle |-> oracle, intact |-> intact]

Init ==
    /\ objs = [o \in Slots |-> Free]
    /\ conversation_states = [c \in ConvIds |-> 0]
    /\ req = [r \in Reqs |-> IdleReq]
    /\ srv = [c \in ConvIds |-> [turn |-> 0, done |-> FALSE]]
    /\ log_file = <<>>
    /\ last = Step("init", "", 0, "", FALSE, FALSE, TRUE)
    /\ assess = NoAssess
    /\ graph = NoGraph
    /\ items_db = <<>>
    /\ auto = NoAuto

RECURSIVE SumTurns(_)
SumTurns(S) ==
    IF S = {} THEN 0
    ELSE LET c == CHOOSE x \in S : TRUE IN srv[c].turn + SumTurns(S \ {c})
\* exchanges the interlocutor has processed so far
Exchanges == SumTurns(ConvIds)

\* requests are taken in slot order: a slot is only a name for a handler
FirstIdle(r) == req[r].pc = "idle" /\ \A q \in Reqs : req[q].pc = "idle" => r <= q

\* ----------------------------------------------------------- start_tutoring
\* Stored that writes the dict under every id
StoredAll(store, cid, o) == [c \in ConvIds |-> o]

\* Stored that writes nothing
StoredNothing(store, cid, o) == store

\* `conversation_states[conversation_id] = initial_state`: the new dict is
\* stored under the id whatever the store holds there
Stored(store, cid, o) == [store EXCEPT ![cid] = o]

\* start_tutoring, its three awaits having returned: the interlocutor's start
\* response carries the conversation id and max_turns
StartTutoring(cid, max_turns) ==
    /\ conversation_states' = Stored(conversation_states, cid, NewSlot)
    /\ objs' = Collect([objs EXCEPT ![NewSlot] = InitialState(cid, max_turns)],
                       conversation_states', req)
    /\ last' = Step("start", cid, NewSlot, "ok", FALSE, FALSE, TRUE)
    /\ UNCHANGED <<req, srv, log_file, assess, graph, items_db, auto>>

\* the exception start_tutoring's try block raises, if any: start_conversation
\* raises when the interlocutor starts nothing, then the student and the topic
\* are looked up in the interlocutor's lists
StartRaises(started, student_found, topic_found) ==
    IF ~started THEN "ClientError"
    ELSE IF ~student_found THEN "NotFound"
    ELSE IF ~topic_found THEN "NotFound"
    ELSE ""

\* `except Exception as e: raise HTTPException(status_code=500, ...)`: the
\* clause catches every exception of the try block, HTTPException included
StartExcept(exc) == IF exc = "" THEN "ok" ELSE "Error500"

\* start_tutoring when its try block raises: nothing is stored; started tells
\* whether the interlocutor has started a conversation for the request
StartFailed(started, student_found, topic_found) ==
    /\ StartRaises(started, student_found, topic_found) # ""
    /\ last' = [started |-> started, student_found |-> student_found,
                topic_found |-> topic_found]
               @@ Step("start_failed", "", 0,
                       StartExcept(StartRaises(started, student_found, topic_found)),
                       FALSE, FALSE, TRUE)
    /\ UNCHANGED <<objs, conversation_states, req, srv, log_file, assess, graph,
                   items_db, auto>>

\* ---------------------------------------------------- interact_with_student
\* Precondition without its turn-limit guard
PreconditionNoLimit(cid) ==
    IF conversation_states[cid] = 0 THEN "NotFound"
    ELSE IF objs[conversation_states[cid]].conversation_ended THEN "ConversationEnded"
    ELSE ""

\* Precondition answering an absent id like an ended conversation
PreconditionAbsentEnded(cid) ==
    IF conversation_states[cid] = 0 THEN "ConversationEnded"
    ELSE IF objs[conversation_states[cid]].conversation_ended THEN "ConversationEnded"
    ELSE IF objs[conversation_states[cid]].turn_count
              >= objs[conversation_states[cid]].max_turns THEN "TurnLimitReached"
    ELSE ""

\* the guards before the try: the HTTP error raised, or "" to go on
Precondition(cid) ==
    IF conversation_states[cid] = 0 THEN "NotFound"
    ELSE IF objs[conversation_states[cid]].conversation_ended THEN "ConversationEnded"
    ELSE IF objs[conversation_states[cid]].turn_count
              >= objs[conversation_states[cid]].max_turns THEN "TurnLimitReached"
    ELSE ""

\* NotGiven with the request's message ignored
NotGivenAlways(given) == TRUE

\* `if not tutor_message`: None and the empty string both ask for a generated one
NotGiven(given) == given = NoMsg \/ given.len = 0

\* the messages a caller supplies: none, the empty string, a short one
GivenMessages ==
    {NoMsg, [src |-> "manual", len |-> 0], [src |-> "manual", len |-> 20]}

\* the state after `state.update(tutoring_update)`, when a message is generated
WithTutorMessage(state, given, g) ==
    IF NotGiven(given)
    THEN [state EXCEPT !.tutor_message = GenerateTutoring(state, g).tutor_message]
    ELSE state

\* the report of a step that began an /interact call, with the request's
\* tutor_message
BeginStep(step, given) ==
    [given |-> given, raised |-> FALSE, opener |-> FALSE] @@ step
\* the same of a call that went on to generate_tutoring, or to the exchange
\* with the request's message: whether the generator's chain raised, and
\* whether the chain was given the conversation-opener context
SentStep(step, given, state, g) ==
    [given |-> given,
     raised |-> step.generated /\ g.raised,
     opener |-> step.generated /\ GenerateTutoring(state, g).opener] @@ step

\* interact_with_student from its entry to the await of api_client.interact
InteractBegin(r, cid, given, g) ==
    /\ FirstIdle(r)
    /\ UNCHANGED <<assess, graph, items_db, auto>>
    /\ IF Precondition(cid) # ""
       THEN /\ last' = BeginStep(Step("begin", cid, conversation_states[cid],
                                      Precondition(cid), FALSE, FALSE, TRUE), given)
            /\ UNCHANGED <<objs, conversation_states, req, srv, log_file>>
       ELSE LET o == conversation_states[cid]
                state == WithTutorMessage(objs[o], given, g)
                tutor_message == IF NotGiven(given) THEN state.tutor_message ELSE given
            IN /\ objs' = [objs EXCEPT ![o] = state]
               /\ req' = [req EXCEPT ![r] =
                            [pc |-> "sent", kind |-> "interact", cid |-> cid,
                             obj |-> o, tutor_message |-> tutor_message,
                             resp |-> NoResp, snap |-> objs[o], turn |-> 0,
                             limit |-> 0]]
               /\ last' = SentStep(Step("begin", cid, o, "sent", NotGiven(given),
                                        FALSE, state = objs[o]), given, objs[o], g)
               /\ UNCHANGED <<conversation_states, srv, log_file>>

\* the student's replies
StudentReplies == {[src |-> "student", len |-> 30]}

\* the interlocutor processes the exchange of handler r: it numbers the turn,
\* answers, and may declare the conversation complete, after which it
\* processes no further exchange of that conversation
ServerProcess(r, reply, complete) ==
    /\ req[r].pc = "sent"
    /\ ~srv[req[r].cid].done
    /\ Exchanges < MaxExchanges
    /\ srv' = [srv EXCEPT ![req[r].cid] = [turn |-> @.turn + 1, done |-> complete]]
    /\ req' = [req EXCEPT ![r].pc = "responded",
                          ![r].resp = [student_response |-> reply,
                                       turn_number |-> srv[req[r].cid].turn + 1,
                                       is_complete |-> complete]]
    /\ last' = Step("server", req[r].cid, req[r].obj, "ok", FALSE, FALSE, TRUE)
    /\ UNCHANGED <<objs, conversation_states, log_file, assess, graph, items_db, auto>>

\* api_client.interact raises (timeout, non-2xx, bad body), before or after the
\* interlocutor processed the exchange: interact_with_student's except clause
\* answers HTTP 500, run_tutoring_conversation lets the exception out
ExchangeFail(r) ==
    /\ req[r].pc \in {"sent", "responded"}
    /\ req' = [req EXCEPT ![r] = IdleReq]
    /\ objs' = Collect(objs, conversation_states, req')
    /\ last' = Step("exchange_failed", req[r].cid, req[r].obj,
                    IF req[r].kind = "interact" THEN "Error500" ELSE "Raised",
                    FALSE, FALSE, objs[req[r].obj] = req[r].snap)
    /\ UNCHANGED <<conversation_states, srv, log_file, assess, graph, items_db, auto>>

\* Appended without the turn number taken over
AppendedNoCount(state, tutor_message, resp) ==
    [state EXCEPT
        !.messages = Append(Append(@, TutorTurn(tutor_message)),
                            StudentTurn(resp.student_response)),
        !.student_response = resp.student_response,
        !.conversation_ended = resp.is_complete,
        !.tutor_message = tutor_message]

\* Appended with the student's reply put before the tutor's message
AppendedReplyFirst(state, tutor_message, resp) ==
    [state EXCEPT
        !.messages = Append(Append(@, StudentTurn(resp.student_response)),
                            TutorTurn(tutor_message)),
        !.student_response = resp.student_response,
        !.turn_count = resp.turn_number,
        !.conversation_ended = resp.is_complete,
        !.tutor_message = tutor_message]

\* lines 180-189: both turns appended, the response's numbers taken over
Appended(state, tutor_message, resp) ==
    [state EXCEPT
        !.messages = Append(Append(@, TutorTurn(tutor_message)),
                            StudentTurn(resp.student_response)),
        !.student_response = resp.student_response,
        !.turn_count = resp.turn_number,
        !.conversation_ended = resp.is_complete,
        !.tutor_message = tutor_message]

\* ShouldAssess without the lock test
ShouldAssessNoLock(state) == StudentResponses(state.messages) # {}
\* ShouldAssess with the lock test inverted
ShouldAssessInverted(state) ==
    state.understanding_level_locked /\ StudentResponses(state.messages) # {}

\* lines 191-195: whether this turn assesses
ShouldAssess(state) ==
    ~state.understanding_level_locked /\ StudentResponses(state.messages) # {}

\* Assessed without the state.update: only the lock is taken over
AssessedLockOnly(state, orc) ==
    LET u == InferUnderstanding(state, orc) IN
    [state EXCEPT
        !.should_lock = {u.should_lock},
        !.understanding_level_locked = IF u.should_lock THEN TRUE ELSE @]

\* lines 196-201: state.update(understanding_update) and the lock
Assessed(state, orc) ==
    LET u == InferUnderstanding(state, orc) IN
    [state EXCEPT
        !.understanding_level = u.understanding_level,
        !.understanding_confidence = u.understanding_confidence,
        !.understanding_evidence = u.understanding_evidence,
        !.should_lock = {u.should_lock},
        !.understanding_level_locked = IF u.should_lock THEN TRUE ELSE @]

\* AfterExchange with the assessment made before the turn is appended
AssessedBeforeAppend(state, tutor_message, resp, orc) ==
    Appended(IF ShouldAssess(state) THEN Assessed(state, orc) ELSE state,
             tutor_message, resp)

\* lines 180-201 of one turn
AfterExchange(state, tutor_message, resp, orc) ==
    LET s == Appended(state, tutor_message, resp) IN
    IF ShouldAssess(s) THEN Assessed(s, orc) ELSE s

\* whether lines 180-201 invoke the assessment chain
OracleInvoked(state, tutor_message, resp, orc) ==
    LET s == Appended(state, tutor_message, resp) IN
    ShouldAssess(s) /\ InferUnderstanding(s, orc).invoked

\* LogEntry without the understanding level
LogEntryNoLevel(state) ==
    [conversation_id |-> state.conversation_id,
     understanding_level |-> None,
     messages |-> state.messages,
     message_count |-> Len(state.messages),
     turn_count |-> state.turn_count,
     conversation_ended |-> state.conversation_ended]

\* the entry log_conversation writes
LogEntry(state) ==
    [conversation_id |-> state.conversation_id,
     understanding_level |-> state.understanding_level,
     messages |-> state.messages,
     message_count |-> Len(state.messages),
     turn_count |-> state.turn_count,
     conversation_ended |-> state.conversation_ended]

\* interact_with_student from the return of the await to its end; the append
\* to the log file may raise (logok = FALSE), which the except clause turns
\* into HTTP 500
InteractResume(r, orc, logok) ==
    /\ req[r].pc = "responded"
    /\ req[r].kind = "interact"
    /\ LET o == req[r].obj
           state == AfterExchange(objs[o], req[r].tutor_message, req[r].resp, orc)
       IN /\ conversation_states' = Stored(conversation_states, req[r].cid, o)
          /\ req' = [req EXCEPT ![r] = IdleReq]
          /\ objs' = Collect([objs EXCEPT ![o] = state], conversation_states', req')
          /\ log_file' = IF logok THEN Append(log_file, LogEntry(state)) ELSE log_file
          /\ last' = Step("resume", req[r].cid, o,
                          IF logok THEN "ok" ELSE "Error500", FALSE,
                          OracleInvoked(objs[o], req[r].tutor_message, req[r].resp, orc),
                          state = req[r].snap)
    /\ UNCHANGED <<srv, assess, graph, items_db, auto>>

\* ------------------------------------------------ run_tutoring_conversation
\* LoopHead with a loop that does not count its passes
LoopHeadUncounted(heap, store, cid, turn, limit, g) ==
    IF \/ heap[store[cid]].conversation_ended
       \/ heap[store[cid]].turn_count >= heap[store[cid]].max_turns
    THEN [objs |-> heap, handler |-> IdleReq, generated |-> FALSE]
    ELSE LET o == store[cid]
             state == [heap[o] EXCEPT
                          !.tutor_message = GenerateTutoring(heap[o], g).tutor_message]
         IN [objs |-> [heap EXCEPT ![o] = state],
             handler |-> [pc |-> "sent", kind |-> "batch", cid |-> cid, obj |-> o,
                          tutor_message |-> state.tutor_message, resp |-> NoResp,
                          snap |-> heap[o], turn |-> turn, limit |-> limit],
             generated |-> TRUE]

\* one pass from the head of the loop `for turn in range(max_turns)` to the
\* await of api_client.interact, or out of the loop: the heap and the handler
\* it leaves; limit is the function's max_turns argument, turn the loop's
\* variable
LoopHead(heap, store, cid, turn, limit, g) ==
    IF turn >= limit
       \/ heap[store[cid]].conversation_ended
       \/ heap[store[cid]].turn_count >= heap[store[cid]].max_turns
    THEN [objs |-> heap, handler |-> IdleReq, generated |-> FALSE]
    ELSE LET o == store[cid]
             state == [heap[o] EXCEPT
                          !.tutor_message = GenerateTutoring(heap[o], g).tutor_message]
         IN [objs |-> [heap EXCEPT ![o] = state],
             handler |-> [pc |-> "sent", kind |-> "batch", cid |-> cid, obj |-> o,
                          tutor_message |-> state.tutor_message, resp |-> NoResp,
                          snap |-> heap[o], turn |-> turn, limit |-> limit],
             generated |-> TRUE]

\* run_tutoring_conversation(student_id, topic_id, max_turns=limit) from the
\* return of start_conversation, whose response carries cid and max_turns, to
\* the first await of the loop
RunTutoringConversation(r, cid, max_turns, limit, g) ==
    /\ FirstIdle(r)
    /\ LET store == Stored(conversation_states, cid, NewSlot)
           it == LoopHead([objs EXCEPT ![NewSlot] = InitialState(cid, max_turns)],
                          store, cid, 0, limit, g)
       IN /\ conversation_states' = store
          /\ req' = [req EXCEPT ![r] = it.handler]
          /\ objs' = Collect(it.objs, store, req')
          /\ last' = Step("batch_start", cid, NewSlot,
                          IF it.handler.pc = "sent" THEN "sent" ELSE "returned",
                          it.generated, FALSE, TRUE)
    /\ UNCHANGED <<srv, log_file, assess, graph, items_db, auto>>

\* run_tutoring_conversation as automated_tutoring calls it, with max_turns=10
BatchStart(r, cid, max_turns, g) ==
    RunTutoringConversation(r, cid, max_turns, BatchTurns, g)

\* run_tutoring_conversation from the return of the loop's await to the next
\* await or the return; a raising log write leaves the function
BatchResume(r, orc, logok, g) ==
    /\ req[r].pc = "responded"
    /\ req[r].kind = "batch"
    /\ LET o == req[r].obj
           state == AfterExchange(objs[o], req[r].tutor_message, req[r].resp, orc)
           store == Stored(conversation_states, req[r].cid, o)
           heap == [objs EXCEPT ![o] = state]
           it == IF ~logok \/ req[r].resp.is_complete
                 THEN [objs |-> heap, handler |-> IdleReq, generated |-> FALSE]
                 ELSE LoopHead(heap, store, req[r].cid, req[r].turn + 1,
                               req[r].limit, g)
       IN /\ conversation_states' = store
          /\ req' = [req EXCEPT ![r] = it.handler]
          /\ objs' = Collect(it.objs, store, req')
          /\ log_file' = IF logok THEN Append(log_file, LogEntry(state)) ELSE log_file
          /\ last' = Step("batch_resume", req[r].cid, o,
                          IF ~logok THEN "Raised"
                          ELSE IF it.handler.pc = "sent" THEN "sent" ELSE "returned",
                          it.generated,
                          OracleInvoked(objs[o], req[r].tutor_message, req[r].resp, orc),
                          state = req[r].snap)
    /\ UNCHANGED <<srv, assess, graph, items_db, auto>>

\* the ids a start response can carry when the interlocutor issues each id once
FreshIds == {c \in IssuedIds : conversation_states[c] = 0}
\* one handler at a time
OneReq == {1}

\* the interlocutor issues every conversation id once; handlers overlap
Next ==
    \/ \E cid \in FreshIds, m \in MaxTurnsChoices : StartTutoring(cid, m)
    \/ \E r \in Reqs, cid \in ConvIds, given \in GivenMessages :
          InteractBegin(r, cid, given, GenOk)
    \/ \E r \in Reqs, reply \in StudentReplies, complete \in BOOLEAN :
          ServerProcess(r, reply, complete)
    \/ \E r \in Reqs : ExchangeFail(r)
    \/ \E r \in Reqs, orc \in OracleResults, logok \in BOOLEAN :
          InteractResume(r, orc, logok)
    \/ \E r \in Reqs, cid \in FreshIds, m \in MaxTurnsChoices :
          BatchStart(r, cid, m, GenOk)
    \/ \E r \in Reqs, orc \in OracleResults, logok \in BOOLEAN :
          BatchResume(r, orc, logok, GenOk)

Spec == Init /\ [][Next]_vars

\* the interlocutor may answer a start with an id it has issued before; one
\* handler is served at a time
NextReissue ==
    \/ \E cid \in IssuedIds, m \in MaxTurnsChoices : StartTutoring(cid, m)
    \/ \E r \in OneReq, cid \in ConvIds, given \in GivenMessages :
          InteractBegin(r, cid, given, GenOk)
    \/ \E r \in OneReq, reply \in StudentReplies, complete \in BOOLEAN :
          ServerProcess(r, reply, complete)
    \/ \E r \in OneReq : ExchangeFail(r)
    \/ \E r \in OneReq, orc \in OracleResults, logok \in BOOLEAN :
          InteractResume(r, orc, logok)
    \/ \E r \in OneReq, cid \in IssuedIds, m \in MaxTurnsChoices :
          BatchStart(r, cid, m, GenOk)
    \/ \E r \in OneReq, orc \in OracleResults, logok \in BOOLEAN :
          BatchResume(r, orc, logok, GenOk)

SpecReissue == Init /\ [][NextReissue]_vars

\* ------------------------------------------------------- two conversations
\* the ids a start response can carry when the interlocutor issues both ids,
\* each once
FreshOfAll == {c \in ConvIds : conversation_states[c] = 0}

\* the inputs of the two conversations: every message is generated, the
\* oracle fails or answers with a lock
TwoGiven == {NoMsg}
TwoOracleResults == {orc \in OracleResults : orc.raised \/ orc.should_lock = JBool(TRUE)}
TwoMaxTurns == {2}

\* two conversations are started and advanced by overlapping handlers
NextTwo ==
    \/ \E cid \in FreshOfAll, m \in TwoMaxTurns : StartTutoring(cid, m)
    \/ \E r \in Reqs, cid \in ConvIds, given \in TwoGiven :
          InteractBegin(r, cid, given, GenOk)
    \/ \E r \in Reqs, reply \in StudentReplies, complete \in BOOLEAN :
          ServerProcess(r, reply, complete)
    \/ \E r \in Reqs : ExchangeFail(r)
    \/ \E r \in Reqs, orc \in TwoOracleResults : InteractResume(r, orc, TRUE)
    \/ \E r \in Reqs, cid \in FreshOfAll, m \in TwoMaxTurns :
          BatchStart(r, cid, m, GenOk)
    \/ \E r \in Reqs, orc \in TwoOracleResults : BatchResume(r, orc, TRUE, GenOk)

SpecTwo == Init /\ [][NextTwo]_vars

\* ------------------------------------------- one conversation's assessments
\* The assessments of one conversation whose turns are served one after the
\* other, taken step by step: the handler appends the turn and calls
\* infer_understanding, the chain answers, the handler merges the update.

\* the tutor messages of the turns: one of exactly SubstantialLen characters
\* and one longer
TutorContents == {[src |-> "manual", len |-> SubstantialLen], GeneratedMessage}

\* what the chain's parser can hand back, field by field
OracleLevels == {JInt(2), JInt(0), JInt(7), JFloat(30), JNull}
OracleConfidences == {JFloat(8), JFloat(5), JFloat(12), JInt(1), JStr, JNull}
OracleLocks == {JBool(TRUE), JBool(FALSE), JInt(1), JNull}
OracleEvidences == {"e1", ""}
AssessOracleResults ==
    {[raised |-> TRUE, level |-> JNull, confidence |-> JNull,
      evidence |-> EvNone, should_lock |-> JNull]}
    \cup {[raised |-> FALSE, level |-> l, confidence |-> c,
           evidence |-> e, should_lock |-> k] :
             l \in OracleLevels, c \in OracleConfidences,
             e \in OracleEvidences, k \in OracleLocks}

\* the record the next turn works on
AssessRecord ==
    IF assess.pc = "none" THEN InitialState("c1", MaxStudentTurns) ELSE assess.state

\* lines 180-196 of a turn whose exchange returned: the turn is appended and,
\* the record being unlocked, infer_understanding is called on it
AssessCall(tutor_message, reply) ==
    /\ assess.pc \in {"none", "merged"}
    /\ ~AssessRecord.conversation_ended
    /\ AssessRecord.turn_count < AssessRecord.max_turns
    /\ LET state == Appended(AssessRecord, tutor_message,
                             [student_response |-> reply,
                              turn_number |-> AssessRecord.turn_count + 1,
                              is_complete |-> FALSE])
       IN /\ ShouldAssess(state)
          /\ assess' = [pc |-> "called", state |-> state]
    /\ UNCHANGED <<objs, conversation_states, req, srv, log_file, last, graph,
                   items_db, auto>>

\* infer_understanding runs to its return, the chain having answered orc
InferReturn(orc) ==
    /\ assess.pc = "called"
    /\ assess' = [pc |-> "returned", state |-> assess.state, orc |-> orc,
                  ret |-> InferUnderstanding(assess.state, orc)]
    /\ UNCHANGED <<objs, conversation_states, req, srv, log_file, last, graph,
                   items_db, auto>>

\* lines 197-201: the handler merges the update and locks; before is the
\* record the call was made on
Merge ==
    /\ assess.pc = "returned"
    /\ assess' = [pc |-> "merged", state |-> Assessed(assess.state, assess.orc),
                  before |-> assess.state, orc |-> assess.orc, ret |-> assess.ret]
    /\ UNCHANGED <<objs, conversation_states, req, srv, log_file, last, graph,
                   items_db, auto>>

NextInfer ==
    \/ \E m \in TutorContents, reply \in StudentReplies : AssessCall(m, reply)
    \/ \E orc \in AssessOracleResults : InferReturn(orc)
    \/ Merge

SpecInfer == Init /\ [][NextInfer]_vars

\* ------------------------------------------------- the oracle unavailable
\* the chain's answers when the oracle is unavailable: it raises, or its level
\* and its confidence are both unusable
OracleDownResults ==
    {orc \in AssessOracleResults :
        \/ orc.raised
        \/ /\ orc.level \in {JInt(0), JInt(7), JFloat(30), JNull}
           /\ orc.confidence \in {JFloat(12), JStr, JNull}}

\* the turns of the conversations, served one at a time, every exchange and
\* every log write succeeding, the oracle unavailable
NextDown ==
    \/ \E cid \in FreshIds, m \in MaxTurnsChoices : StartTutoring(cid, m)
    \/ \E r \in OneReq, cid \in ConvIds, given \in GivenMessages :
          InteractBegin(r, cid, given, GenOk)
    \/ \E r \in OneReq, reply \in StudentReplies, complete \in BOOLEAN :
          ServerProcess(r, reply, complete)
    \/ \E r \in OneReq, orc \in OracleDownResults : InteractResume(r, orc, TRUE)
    \/ \E r \in OneReq, cid \in FreshIds, m \in MaxTurnsChoices :
          BatchStart(r, cid, m, GenOk)
    \/ \E r \in OneReq, orc \in OracleDownResults : BatchResume(r, orc, TRUE, GenOk)

\* a step of a turn on a record the guards let through: the caller invokes the
\* turn, the interlocutor answers, the event loop resumes the handler
TurnStep ==
    \/ \E r \in OneReq, cid \in ConvIds, given \in GivenMessages :
          Precondition(cid) = "" /\ InteractBegin(r, cid, given, GenOk)
    \/ \E r \in OneReq, reply \in StudentReplies, complete \in BOOLEAN :
          ServerProcess(r, reply, complete)
    \/ \E r \in OneReq, orc \in OracleDownResults : InteractResume(r, orc, TRUE)
    \/ \E r \in OneReq, orc \in OracleDownResults : BatchResume(r, orc, TRUE, GenOk)

\* callers keep invoking turns on a record that takes them, and no turn is
\* left waiting for ever
SpecDown == Init /\ [][NextDown]_vars /\ WF_vars(TurnStep)

\* ------------------------------------------------------ the generator fails
\* the student's replies, the empty one included
TeachReplies == StudentReplies \cup {[src |-> "student", len |-> 0]}
\* what the generator's chain can do
GenResults == {GenOk, GenRaised}

\* the turns of the conversations, served one at a time, the generator's chain
\* raising or not and the student answering with text or with nothing
NextTeach ==
    \/ \E cid \in FreshIds, m \in MaxTurnsChoices : StartTutoring(cid, m)
    \/ \E r \in OneReq, cid \in ConvIds, given \in GivenMessages, g \in GenResults :
          InteractBegin(r, cid, given, g)
    \/ \E r \in OneReq, reply \in TeachReplies, complete \in BOOLEAN :
          ServerProcess(r, reply, complete)
    \/ \E r \in OneReq : ExchangeFail(r)
    \/ \E r \in OneReq, orc \in OracleResults, logok \in BOOLEAN :
          InteractResume(r, orc, logok)
    \/ \E r \in OneReq, cid \in FreshIds, m \in MaxTurnsChoices, g \in GenResults :
          BatchStart(r, cid, m, g)
    \/ \E r \in OneReq, orc \in OracleResults, logok \in BOOLEAN, g \in GenResults :
          BatchResume(r, orc, logok, g)

SpecTeach == Init /\ [][NextTeach]_vars

\* --------------------------------------------------- the batch runner alone
\* the max_turns arguments run_tutoring_conversation is called with
BatchLimits == {1, 2, BatchTurns}
\* the max_turns the start response carries
BatchMaxTurns == {1, 2, 3}

\* run_tutoring_conversation under every argument, while another caller's
\* turns on the same conversation overlap with it
NextBatch ==
    \/ \E r \in Reqs, cid \in FreshIds, m \in BatchMaxTurns, limit \in BatchLimits :
          RunTutoringConversation(r, cid, m, limit, GenOk)
    \/ \E r \in Reqs, cid \in ConvIds : InteractBegin(r, cid, NoMsg, GenOk)
    \/ \E r \in Reqs, reply \in StudentReplies, complete \in BOOLEAN :
          ServerProcess(r, reply, complete)
    \/ \E r \in Reqs : ExchangeFail(r)
    \/ \E r \in Reqs, orc \in TwoOracleResults : InteractResume(r, orc, TRUE)
    \/ \E r \in Reqs, orc \in TwoOracleResults, logok \in BOOLEAN :
          BatchResume(r, orc, logok, GenOk)

\* a step of the exchange handler r awaits: the interlocutor answers or the
\* client raises, and the event loop resumes the coroutine
AwaitStep(r) ==
    \/ \E reply \in StudentReplies, complete \in BOOLEAN : ServerProcess(r, reply, complete)
    \/ ExchangeFail(r)
    \/ \E orc \in TwoOracleResults : InteractResume(r, orc, TRUE)
    \/ \E orc \in TwoOracleResults, logok \in BOOLEAN : BatchResume(r, orc, logok, GenOk)

\* no await is left pending for ever
SpecBatch == Init /\ [][NextBatch]_vars /\ \A r \in Reqs : WF_vars(AwaitStep(r))

\* ------------------------------------------------------ automated_tutoring
\* the student/topic pairs of the set, in the order of the two loops
AutoPairs ==
    <<[student_id |-> "s1", topic_id |-> "t1"], [student_id |-> "s2", topic_id |-> "t1"]>>
\* the max_turns the start response of a pair's conversation carries
AutoMaxTurns == {0, 1}

\* the record of one run of run_tutoring_conversation: the pair, the id of its
\* conversation and how it ended
Run(pair, cid, outcome) == [pair |-> pair, cid |-> cid, outcome |-> outcome]

\* Collected with the raised runs taken like the returned ones
CollectedAlways(a, cid, outcome, level) ==
    [a EXCEPT
        !.pc = "next",
        !.i = @ + 1,
        !.runs = Append(@, Run(AutoPairs[a.i], cid, outcome)),
        !.conversation_results = Append(@, AutoPairs[a.i]),
        !.all_predictions =
            IF level # None
            THEN Append(@, [pair |-> AutoPairs[a.i], predicted_level |-> level])
            ELSE @]

\* lines 455-472: the call of run_tutoring_conversation has returned a result
\* with that understanding_level, or has raised
Collected(a, cid, outcome, level) ==
    IF outcome = "Raised"
    THEN [a EXCEPT !.pc = "next", !.i = @ + 1,
                   !.runs = Append(@, Run(AutoPairs[a.i], cid, outcome))]
    ELSE [a EXCEPT
            !.pc = "next",
            !.i = @ + 1,
            !.runs = Append(@, Run(AutoPairs[a.i], cid, outcome)),
            !.conversation_results = Append(@, AutoPairs[a.i]),
            !.all_predictions =
                IF level # None
                THEN Append(@, [pair |-> AutoPairs[a.i], predicted_level |-> level])
                ELSE @]

\* automated_tutoring up to its loops: get_students has returned the students
AutomatedTutoring ==
    /\ auto.pc = "none"
    /\ auto' = [pc |-> "next", i |-> 1, runs |-> <<>>, conversation_results |-> <<>>,
                all_predictions |-> <<>>, submit_called |-> FALSE,
                submitted |-> <<>>, predictions_submitted |-> FALSE]
    /\ last' = Step("automated", "", 0, "", FALSE, FALSE, TRUE)
    /\ UNCHANGED <<objs, conversation_states, req, srv, log_file, assess, graph,
                   items_db>>

\* the pair at the head of the loops is the first of its student
NewStudent(a) ==
    IF a.i = 1 THEN TRUE
    ELSE AutoPairs[a.i].student_id # AutoPairs[a.i - 1].student_id

\* get_student_topics raises: the outer except clause answers HTTP 500
AutoTopicsFail ==
    /\ auto.pc = "next"
    /\ auto.i <= Len(AutoPairs)
    /\ NewStudent(auto)
    /\ auto' = [auto EXCEPT !.pc = "error500"]
    /\ last' = Step("auto_topics", "", 0, "Error500", FALSE, FALSE, TRUE)
    /\ UNCHANGED <<objs, conversation_states, req, srv, log_file, assess, graph,
                   items_db>>

\* run_tutoring_conversation is called for the pair at the head of the loops
AutoCall ==
    /\ auto.pc = "next"
    /\ auto.i <= Len(AutoPairs)
    /\ auto' = [auto EXCEPT !.pc = "calling"]
    /\ last' = Step("auto_call", "", 0, "", FALSE, FALSE, TRUE)
    /\ UNCHANGED <<objs, conversation_states, req, srv, log_file, assess, graph,
                   items_db>>

\* the call raises before a record is stored (student or topic not found, or
\* start_conversation raises); the except clause at 470 goes on to the next pair
AutoCallRaised ==
    /\ auto.pc = "calling"
    /\ last.op = "auto_call"
    /\ auto' = Collected(auto, "", "Raised", None)
    /\ last' = Step("auto_collect", "", 0, "Raised", FALSE, FALSE, TRUE)
    /\ UNCHANGED <<objs, conversation_states, req, srv, log_file, assess, graph,
                   items_db>>

\* the run of the pair is under way: run_tutoring_conversation has stored its
\* record and has not returned
AutoRunning == auto.pc = "calling" /\ last.op \notin {"auto_call", "auto_collect"}

\* the call has returned or raised after its record was stored: lines 410-420
\* read the level from the store, lines 461-472 collect
AutoCollect ==
    /\ AutoRunning
    /\ \A r \in OneReq : req[r].pc = "idle"
    /\ auto' = Collected(auto, last.cid, last.outcome,
                         objs[conversation_states[last.cid]].understanding_level)
    /\ last' = Step("auto_collect", last.cid, 0, last.outcome, FALSE, FALSE, TRUE)
    /\ UNCHANGED <<objs, conversation_states, req, srv, log_file, assess, graph,
                   items_db>>

\* lines 474-493: the predictions are submitted if there are any; the
\* submission may raise, which is caught
AutoSubmit(ok) ==
    /\ auto.pc = "next"
    /\ auto.i > Len(AutoPairs)
    /\ auto' = IF auto.all_predictions # <<>>
               THEN [auto EXCEPT !.pc = "done", !.submit_called = TRUE,
                                 !.submitted = auto.all_predictions,
                                 !.predictions_submitted = ok]
               ELSE [auto EXCEPT !.pc = "done"]
    /\ last' = Step("auto_submit", "", 0, "", FALSE, FALSE, TRUE)
    /\ UNCHANGED <<objs, conversation_states, req, srv, log_file, assess, graph,
                   items_db>>

\* one call of automated_tutoring, the conversations of its pairs run one
\* after the other
NextAuto ==
    \/ AutomatedTutoring
    \/ AutoTopicsFail
    \/ AutoCall
    \/ AutoCallRaised
    \/ /\ auto.pc = "calling" /\ last.op = "auto_call"
       /\ \E r \in OneReq, cid \in FreshOfAll, m \in AutoMaxTurns :
             BatchStart(r, cid, m, GenOk)
    \/ /\ AutoRunning
       /\ \E r \in OneReq, reply \in StudentReplies, complete \in BOOLEAN :
             ServerProcess(r, reply, complete)
    \/ AutoRunning /\ \E r \in OneReq : ExchangeFail(r)
    \/ /\ AutoRunning
       /\ \E r \in OneReq, orc \in OracleResults, logok \in BOOLEAN :
             BatchResume(r, orc, logok, GenOk)
    \/ AutoCollect
    \/ \E ok \in BOOLEAN : AutoSubmit(ok)

SpecAuto == Init /\ [][NextAuto]_vars

\* ------------------------------------------------- start_tutoring's errors
\* conversations are started, with and without success, and advanced by turns
\* served one at a time
NextStart ==
    \/ \E cid \in FreshOfAll, m \in MaxTurnsChoices : StartTutoring(cid, m)
    \/ \E started, student_found, topic_found \in BOOLEAN :
          StartFailed(started, student_found, topic_found)
    \/ \E r \in OneReq, cid \in ConvIds : InteractBegin(r, cid, NoMsg, GenOk)
    \/ \E r \in OneReq, reply \in StudentReplies, complete \in BOOLEAN :
          ServerProcess(r, reply, complete)
    \/ \E r \in OneReq, orc \in TwoOracleResults : InteractResume(r, orc, TRUE)

SpecStart == Init /\ [][NextStart]_vars

\* ------------------------------------------------------ ConversationLogger
\* the student and the topic of the conversations, as log_conversation is given
\* them
EntryStudent == "s1"
EntryTopic == "t1"
\* no filter: the argument is None (or empty)
NoFilter == ""

\* the lines of one message of the transcript in an indented dump: its opening
\* brace, its two members and its closing brace
MessageLines(m) ==
    <<[kind |-> "open"], [kind |-> "member", key |-> "role"],
      [kind |-> "member", key |-> "content"], [kind |-> "close"]>>

RECURSIVE MessagesLines(_)
MessagesLines(messages) ==
    IF messages = <<>> THEN <<>>
    ELSE MessageLines(Head(messages)) \o MessagesLines(Tail(messages))

\* json.dumps(log_entry, indent=indent) + "\n" as the lines it puts in the
\* file: without indent the whole document on one line; with an indent the
\* opening brace, every member on its own line or lines, the closing brace
Dumps(entry, indent) ==
    IF indent = None
    THEN <<[kind |-> "document", value |-> entry]>>
    ELSE <<[kind |-> "open"],
           [kind |-> "member", key |-> "timestamp"],
           [kind |-> "member", key |-> "conversation_id"],
           [kind |-> "member", key |-> "student_id"],
           [kind |-> "member", key |-> "topic_id"],
           [kind |-> "member", key |-> "understanding_level"],
           [kind |-> "member", key |-> "student_profile"],
           [kind |-> "member", key |-> "topic_info"]>>
         \o (IF entry.messages = <<>>
             THEN <<[kind |-> "member", key |-> "messages"]>>
             ELSE <<[kind |-> "member", key |-> "messages"]>>
                  \o MessagesLines(entry.messages) \o <<[kind |-> "close"]>>)
         \o <<[kind |-> "member", key |-> "message_count"],
              [kind |-> "member", key |-> "metadata"],
              [kind |-> "member", key |-> "turn_count"],
              [kind |-> "member", key |-> "conversation_ended"],
              [kind |-> "close"],
              [kind |-> "close"]>>

\* conversations.jsonl as its lines: the dumps of the entries written
RECURSIVE FileLines(_)
FileLines(entries) ==
    IF entries = <<>> THEN <<>>
    ELSE FileLines(SubSeq(entries, 1, Len(entries) - 1))
         \o Dumps(entries[Len(entries)], LogIndent)

\* json.loads(line): a line that is a whole document gives its value, any
\* other line raises JSONDecodeError
Loads(line) ==
    IF line.kind = "document" THEN [ok |-> TRUE, value |-> line.value]
    ELSE [ok |-> FALSE]

\* the sequence reversed: entries are written with growing timestamps and
\* sorted newest first
RECURSIVE Reversed(_)
Reversed(q) ==
    IF q = <<>> THEN <<>> ELSE Append(Reversed(Tail(q)), Head(q))

\* get_conversations(student_id, topic_id, limit) on a file of these lines
GetConversations(lines, student_id, topic_id, limit) ==
    LET Kept(line) ==
            /\ Loads(line).ok
            /\ student_id = NoFilter \/ EntryStudent = student_id
            /\ topic_id = NoFilter \/ EntryTopic = topic_id
        kept == SelectSeq(lines, Kept)
        conversations == Reversed([k \in 1..Len(kept) |-> Loads(kept[k]).value])
    IN IF limit # None /\ limit # 0 /\ Len(conversations) > limit
       THEN SubSeq(conversations, 1, limit)
       ELSE conversations

\* a call of get_conversations on the file as the turns have left it
ReadConversations(student_id, topic_id, limit) ==
    /\ last' = [returned |-> GetConversations(FileLines(log_file), student_id,
                                               topic_id, limit),
                student_id |-> student_id, topic_id |-> topic_id, limit |-> limit]
               @@ Step("get_conversations", "", 0, "ok", FALSE, FALSE, TRUE)
    /\ UNCHANGED <<objs, conversation_states, req, srv, log_file, assess, graph,
                   items_db, auto>>

\* the filters and limits a caller passes
ReadFilters == {NoFilter, "s1", "s2"}
ReadTopics == {NoFilter, "t1"}
ReadLimits == {None, 1}

\* the turns of a conversation, served one at a time, and the log read between
\* them
NextLog ==
    \/ \E cid \in FreshIds, m \in MaxTurnsChoices : StartTutoring(cid, m)
    \/ \E r \in OneReq, cid \in ConvIds : InteractBegin(r, cid, NoMsg, GenOk)
    \/ \E r \in OneReq, reply \in StudentReplies, complete \in BOOLEAN :
          ServerProcess(r, reply, complete)
    \/ \E r \in OneReq, orc \in TwoOracleResults, logok \in BOOLEAN :
          InteractResume(r, orc, logok)
    \/ \E student_id \in ReadFilters, topic_id \in ReadTopics, limit \in ReadLimits :
          ReadConversations(student_id, topic_id, limit)

SpecLog == Init /\ [][NextLog]_vars

\* ---------------------------------------------------------- tutoring_graph
\* should_continue with the turn limit left out
ShouldContinueNoLimit(state) ==
    IF state.conversation_ended THEN "end"
    ELSE IF state.understanding_level = None \/ state.turn_count <= EarlyTurns
    THEN "infer_understanding"
    ELSE "generate_tutoring"

\* should_continue(state): the router after the generate_tutoring node
ShouldContinue(state) ==
    IF state.conversation_ended \/ state.turn_count >= state.max_turns THEN "end"
    ELSE IF state.understanding_level = None \/ state.turn_count <= EarlyTurns
    THEN "infer_understanding"
    ELSE "generate_tutoring"

\* should_infer_understanding(state): the router after the infer_understanding
\* node
ShouldInferUnderstanding(state) ==
    IF state.understanding_level = None \/ state.turn_count % InferEvery = 0
    THEN "infer_understanding"
    ELSE "generate_tutoring"

\* no run of the graph is under way
GraphIdle == graph.node \in {"none", "END"}

\* the graph is invoked on the record stored under cid; it starts at its entry
\* point and works on its own copy of the state; tick is the parity of the
\* nodes run, so that a node run again on an unchanged state is a step
GraphInvoke(cid) ==
    /\ GraphIdle
    /\ conversation_states[cid] # 0
    /\ graph' = [node |-> "infer_understanding", cid |-> cid,
                 state |-> objs[conversation_states[cid]],
                 from |-> "START", route |-> "", tick |-> 0]
    /\ UNCHANGED <<objs, conversation_states, req, srv, log_file, last, assess,
                   items_db, auto>>

\* the infer_understanding node: the channels of TutoringState it returns are
\* written, then should_infer_understanding routes
GraphInfer(orc) ==
    /\ graph.node = "infer_understanding"
    /\ LET u == InferUnderstanding(graph.state, orc)
           state == [graph.state EXCEPT
                        !.understanding_level = u.understanding_level,
                        !.understanding_confidence = u.understanding_confidence,
                        !.understanding_evidence = u.understanding_evidence]
           route == ShouldInferUnderstanding(state)
       IN graph' = [graph EXCEPT !.node = route, !.state = state,
                                 !.from = "infer_understanding", !.route = route,
                                 !.tick = 1 - @]
    /\ UNCHANGED <<objs, conversation_states, req, srv, log_file, last, assess,
                   items_db, auto>>

\* the generate_tutoring node: its message is written, then should_continue
\* routes
GraphGenerate(g) ==
    /\ graph.node = "generate_tutoring"
    /\ LET state == [graph.state EXCEPT
                        !.tutor_message = GenerateTutoring(graph.state, g).tutor_message]
           route == ShouldContinue(state)
       IN graph' = [graph EXCEPT !.node = IF route = "end" THEN "END" ELSE route,
                                 !.state = state,
                                 !.from = "generate_tutoring", !.route = route,
                                 !.tick = 1 - @]
    /\ UNCHANGED <<objs, conversation_states, req, srv, log_file, last, assess,
                   items_db, auto>>

\* a conversation is advanced by turns served one at a time, and between two
\* steps of the handlers the graph is run on the stored record
NextGraph ==
    \/ GraphIdle /\ \E cid \in FreshIds, m \in MaxTurnsChoices : StartTutoring(cid, m)
    \/ GraphIdle /\ \E r \in OneReq, cid \in ConvIds : InteractBegin(r, cid, NoMsg, GenOk)
    \/ GraphIdle /\ \E r \in OneReq, reply \in StudentReplies, complete \in BOOLEAN :
                       ServerProcess(r, reply, complete)
    \/ GraphIdle /\ \E r \in OneReq, orc \in TwoOracleResults :
                       InteractResume(r, orc, TRUE)
    \/ \E cid \in ConvIds : GraphInvoke(cid)
    \/ \E orc \in TwoOracleResults : GraphInfer(orc)
    \/ \E g \in GenResults : GraphGenerate(g)

SpecGraph == Init /\ [][NextGraph]_vars

\* a node of the graph runs
GraphRun ==
    \/ \E orc \in TwoOracleResults : GraphInfer(orc)
    \/ \E g \in GenResults : GraphGenerate(g)

\* a run of the graph is carried on as long as it has a node to run
SpecGraphLive == SpecGraph /\ WF_vars(GraphRun)

\* ---------------------------------------------------------- items endpoint
\* a field an ItemUpdate leaves unset
Unset == "<unset>"
\* the ids a caller asks for
ItemIds == 1..MaxItems

\* what a call of the items endpoint reports: its status and what it returned
ItemStep(op, outcome, returned) ==
    [returned |-> returned] @@ Step(op, "", 0, outcome, FALSE, FALSE, TRUE)

\* `next((item for item in items_db if item.id == item_id), None)`: the index
\* of the first item with the id, 0 for None
FirstWithId(items, item_id) ==
    IF \E i \in 1..Len(items) : items[i].id = item_id
    THEN CHOOSE i \in 1..Len(items) :
            /\ items[i].id = item_id
            /\ \A j \in 1..(i - 1) : items[j].id # item_id
    ELSE 0

\* an id one above the largest id in the list
NewItemIdAboveMax(items) ==
    IF items = <<>> THEN 1
    ELSE (CHOOSE m \in {items[i].id : i \in 1..Len(items)} :
             \A i \in 1..Len(items) : items[i].id <= m) + 1

\* `id=len(items_db) + 1`
NewItemId(items) == Len(items) + 1

\* get_items
GetItems ==
    /\ last' = ItemStep("get_items", "200", items_db)
    /\ UNCHANGED <<objs, conversation_states, req, srv, log_file, assess, graph,
                   items_db, auto>>

\* get_item
GetItem(item_id) ==
    /\ LET i == FirstWithId(items_db, item_id)
       IN last' = IF i = 0 THEN ItemStep("get_item", "404", <<>>)
                  ELSE ItemStep("get_item", "200", items_db[i])
    /\ UNCHANGED <<objs, conversation_states, req, srv, log_file, assess, graph,
                   items_db, auto>>

\* create_item
CreateItem(name) ==
    /\ Len(items_db) < MaxItems
    /\ LET new_item == [id |-> NewItemId(items_db), name |-> name]
       IN /\ items_db' = Append(items_db, new_item)
          /\ last' = ItemStep("create_item", "201", new_item)
    /\ UNCHANGED <<objs, conversation_states, req, srv, log_file, assess, graph, auto>>

\* update_item: the fields the update sets are assigned to the item found
UpdateItem(item_id, name) ==
    /\ LET i == FirstWithId(items_db, item_id)
           item == [items_db[i] EXCEPT !.name = IF name = Unset THEN @ ELSE name]
       IN IF i = 0
          THEN /\ last' = ItemStep("update_item", "404", <<>>)
               /\ UNCHANGED items_db
          ELSE /\ items_db' = [items_db EXCEPT ![i] = item]
               /\ last' = ItemStep("update_item", "200", item)
    /\ UNCHANGED <<objs, conversation_states, req, srv, log_file, assess, graph, auto>>

\* delete_item: the list is rebuilt without the items of that id
DeleteItem(item_id) ==
    /\ LET Keep(item) == item.id # item_id
       IN IF FirstWithId(items_db, item_id) = 0
          THEN /\ last' = ItemStep("delete_item", "404", <<>>)
               /\ UNCHANGED items_db
          ELSE /\ items_db' = SelectSeq(items_db, Keep)
               /\ last' = ItemStep("delete_item", "204", <<>>)
    /\ UNCHANGED <<objs, conversation_states, req, srv, log_file, assess, graph, auto>>

NextItems ==
    \/ GetItems
    \/ \E item_id \in ItemIds : GetItem(item_id)
    \/ \E name \in ItemNames : CreateItem(name)
    \/ \E item_id \in ItemIds, name \in ItemNames \cup {Unset} : UpdateItem(item_id, name)
    \/ \E item_id \in ItemIds : DeleteItem(item_id)

SpecItems == Init /\ [][NextItems]_vars

\* ------------------------------------------------------------------ claims
Live == {o \in Slots : objs[o] # Free}
TurnEnds == {"resume", "batch_resume"}
\* the dict the store holds under a conversation id
Record(c) == objs[conversation_states[c]]

\* C1: once a record's locked flag is true, no step of any turn execution,
\* interact or batch loop, overlapping or not, changes its understanding_level,
\* understanding_confidence or understanding_evidence.
C1_LockedEstimateFrozen ==
    [][\A o \in Slots :
          (objs[o] # Free /\ objs'[o] # Free /\ objs[o].understanding_level_locked)
          => /\ objs'[o].understanding_level = objs[o].understanding_level
             /\ objs'[o].understanding_confidence = objs[o].understanding_confidence
             /\ objs'[o].understanding_evidence = objs[o].understanding_evidence]_vars
\* a turn has just completed on a record that was locked before it
C1_Witness ==
    /\ last.op \in TurnEnds
    /\ ~last.oracle
    /\ objs[last.obj].understanding_level_locked
    /\ Len(objs[last.obj].messages) >= 4

\* C2: in every executed turn the oracle is invoked iff, at the assessment
\* point (both turns appended), the record is not locked and its transcript
\* holds a student turn; no other step invokes it.
C2_OracleIffUnlocked ==
    [][IF last'.op \in TurnEnds
       THEN last'.oracle <=>
              (~objs[last'.obj].understanding_level_locked
               /\ StudentResponses(objs'[last'.obj].messages) # {})
       ELSE ~last'.oracle]_vars
\* a second turn has just assessed again, the first having left the record unlocked
C2_Witness ==
    /\ last.op \in TurnEnds
    /\ last.oracle
    /\ Len(objs[last.obj].messages) >= 4

\* C3: every record that is locked has an understanding level, whatever the
\* oracle answered in the turn that locked it.
C3_LockedHasLevel ==
    \A o \in Live : objs[o].understanding_level_locked => objs[o].understanding_level # None
\* a record locked by the oracle failing on it, its level the default one
C3_Witness ==
    \E o \in Live : /\ objs[o].understanding_level_locked
                    /\ objs[o].understanding_level = DefaultLevel
                    /\ objs[o].understanding_evidence = EvUnable

\* C4: for every conversation id, the stored record's locked flag never goes
\* from true to false, over start, interact and batch-run steps.
C4_LockLatchPerId ==
    [][\A c \in ConvIds :
          (conversation_states[c] # 0 /\ Record(c).understanding_level_locked)
          => (conversation_states'[c] # 0
              /\ objs'[conversation_states'[c]].understanding_level_locked)]_vars

\* C5: every record has turn_count <= max_turns at every observable state.
C5_TurnCountWithinMax ==
    \A o \in Live : objs[o].turn_count <= objs[o].max_turns

\* C6: an /interact call on an ended record is rejected with ConversationEnded
\* and one on a record that is not ended with turn_count >= max_turns with
\* TurnLimitReached; a rejected call invokes no generator and no oracle, starts
\* no exchange and leaves the records, the store and the log as they were.
C6_TerminalRejected ==
    [][last'.op = "begin" =>
          /\ (conversation_states[last'.cid] # 0
              /\ Record(last'.cid).conversation_ended)
             => last'.outcome = "ConversationEnded"
          /\ (conversation_states[last'.cid] # 0
              /\ ~Record(last'.cid).conversation_ended
              /\ Record(last'.cid).turn_count >= Record(last'.cid).max_turns)
             => last'.outcome = "TurnLimitReached"
          /\ last'.outcome \in {"ConversationEnded", "TurnLimitReached"}
             => /\ ~last'.generated /\ ~last'.oracle
                /\ UNCHANGED <<objs, conversation_states, req, srv, log_file>>]_vars
\* C6 as first stated: ConversationEnded for every ended record and
\* TurnLimitReached for every record with turn_count >= max_turns, ended or not;
\* a rejected call changes nothing.
C6_TerminalRejectedAsStated ==
    [][last'.op = "begin" =>
          /\ (conversation_states[last'.cid] # 0
              /\ Record(last'.cid).conversation_ended)
             => last'.outcome = "ConversationEnded"
          /\ (conversation_states[last'.cid] # 0
              /\ Record(last'.cid).turn_count >= Record(last'.cid).max_turns)
             => last'.outcome = "TurnLimitReached"
          /\ last'.outcome \in {"ConversationEnded", "TurnLimitReached"}
             => /\ ~last'.generated /\ ~last'.oracle
                /\ UNCHANGED <<objs, conversation_states, req, srv, log_file>>]_vars
\* a call has just been rejected at the turn limit, after a logged turn
C6_Witness ==
    /\ last.op = "begin"
    /\ last.outcome = "TurnLimitReached"
    /\ log_file # <<>>
    /\ objs[last.obj].turn_count >= objs[last.obj].max_turns

\* C7: once a record is ended, no later step changes its transcript, turn_count
\* or locked flag, and ended stays true.
C7_EndedFrozen ==
    [][\A o \in Slots :
          (objs[o] # Free /\ objs'[o] # Free /\ objs[o].conversation_ended)
          => /\ objs'[o].messages = objs[o].messages
             /\ objs'[o].turn_count = objs[o].turn_count
             /\ objs'[o].understanding_level_locked = objs[o].understanding_level_locked
             /\ objs'[o].conversation_ended]_vars

\* C8: when the exchange of an /interact turn fails, the failure is surfaced
\* (HTTP 500) and the record is exactly as it was before the turn began.
C8_FailedExchangeLeavesRecord ==
    (last.op = "exchange_failed" /\ last.outcome # "Raised")
    => (last.outcome = "Error500" /\ last.intact)

\* C9: no partial commit: an /interact turn that gets past the exchange and
\* answers with an error has left the record as it was before the turn.
C9_ErrorMeansUnchanged ==
    (last.op = "resume" /\ last.outcome = "Error500") => last.intact

\* C10: at most one turn execution is in flight per conversation id.
C10_OneTurnInFlight ==
    \A r, q \in Reqs :
        (r # q /\ req[r].pc # "idle" /\ req[q].pc # "idle") => req[r].cid # req[q].cid

\* C11: a record's turn_count never decreases, over every interleaving of turn
\* executions, the interlocutor numbering the exchanges it processes 1, 2, ...
C11_TurnCountMonotone ==
    [][\A o \in Slots :
          (objs[o] # Free /\ objs'[o] # Free)
          => objs'[o].turn_count >= objs[o].turn_count]_vars

\* the chain was invoked in the call looked at, and raised
OracleRaised == assess.pc \in {"returned", "merged"} /\ assess.ret.invoked /\ assess.orc.raised
\* the record the call looked at was made on
Called == IF assess.pc = "merged" THEN assess.before ELSE assess.state

\* C12: when the oracle call raises, infer_understanding returns the previous
\* level if one is set, else 3; the previous confidence if one is set, else 0.3;
\* and should_lock = (previous level set and a student turn was considered). So
\* the merged record has level 3, confidence 0.3 and stays unlocked when there
\* was no previous level, and keeps its level and is locked when there was one.
C12_OracleFailureFallback ==
    OracleRaised =>
        /\ assess.ret.understanding_level =
             (IF Called.understanding_level # None THEN Called.understanding_level ELSE 3)
        /\ assess.ret.understanding_confidence =
             (IF Called.understanding_confidence # None
              THEN Called.understanding_confidence ELSE 3)
        /\ assess.ret.should_lock =
             (Called.understanding_level # None
              /\ StudentResponses(assess.ret.handed) # {})
        /\ assess.pc = "merged" =>
             IF Called.understanding_level = None
             THEN /\ assess.state.understanding_level = 3
                  /\ assess.state.understanding_confidence = 3
                  /\ ~assess.state.understanding_level_locked
             ELSE /\ assess.state.understanding_level = Called.understanding_level
                  /\ assess.state.understanding_level_locked
\* the oracle has raised on a record that had a level, which is now locked
C12_Witness ==
    /\ OracleRaised
    /\ assess.pc = "merged"
    /\ assess.before.understanding_level = 2
    /\ assess.before.understanding_confidence = None
    /\ assess.state.understanding_level_locked

\* the guards let no further turn through on the record stored under c
Terminal(c) ==
    /\ conversation_states[c] # 0
    /\ Record(c).conversation_ended \/ Record(c).turn_count >= Record(c).max_turns

\* C13: with the oracle unavailable (every call raises or answers unusable
\* fields) and every exchange succeeding, each turn let through completes
\* without an error, its transcript longer by the tutor turn and the student
\* turn and its turn_count the response's turn number; and every stored record
\* eventually becomes terminal.
C13_ProgressWithoutOracle ==
    /\ [][\A r \in Reqs :
             (req[r].pc = "responded" /\ last'.op \in TurnEnds /\ req'[r] # req[r])
             => /\ last'.outcome \in {"ok", "sent", "returned"}
                /\ objs'[req[r].obj].messages =
                      objs[req[r].obj].messages
                      \o <<TutorTurn(req[r].tutor_message),
                           StudentTurn(req[r].resp.student_response)>>
                /\ objs'[req[r].obj].turn_count = req[r].resp.turn_number]_vars
    /\ \A c \in ConvIds : [](conversation_states[c] # 0 => <>Terminal(c))
\* a conversation has reached its turn limit with the oracle raising in every
\* turn: its level is the default one and it is locked
C13_Witness ==
    \E c \in ConvIds :
        /\ conversation_states[c] # 0
        /\ last.op \in TurnEnds
        /\ ~Record(c).conversation_ended
        /\ Record(c).turn_count = 2
        /\ Record(c).understanding_level = DefaultLevel
        /\ Record(c).understanding_evidence = EvUnable
        /\ Record(c).understanding_level_locked

\* the chain was invoked in the call looked at, and answered
OracleAnswered ==
    assess.pc \in {"returned", "merged"} /\ assess.ret.invoked /\ ~assess.orc.raised
\* an integer level in 1..5, as the oracle is asked to return
LevelInRange(level) == level.t = "int" /\ level.v \in 1..5

ConfidenceInRange(confidence) ==
    confidence.t \in {"int", "float"} /\ Tenths(confidence) \in 0..MaxConfidence

\* C15: for every oracle answer the confidence merged into the record is a
\* number in [0.0, 1.0]; a returned confidence that is missing, not a number or
\* out of range is replaced by the previous confidence if there is one, else by
\* 0.5, the first assessment of a conversation included.
C15_ConfidenceValidated ==
    (assess.pc = "merged" /\ OracleAnswered)
    => /\ assess.state.understanding_confidence \in 0..MaxConfidence
       /\ ~ConfidenceInRange(assess.orc.confidence)
          => assess.state.understanding_confidence =
               (IF assess.before.understanding_confidence # None
                THEN assess.before.understanding_confidence ELSE DefaultConfidence)

\* the substantial-teaching tutor turns among the turns handed to the oracle
TeachingTurns(messages) ==
    {i \in 1..Len(messages) :
        messages[i].role = "tutor" /\ messages[i].content.len > SubstantialLen}

\* C16: when the oracle's should_lock is not a boolean, the lock decision of the
\* turn is (validated confidence >= 0.7 and a student turn was considered and
\* fewer than 2 substantial-teaching tutor turns were considered); a boolean
\* should_lock is used as returned.
C16_LockDerivation ==
    OracleAnswered
    => assess.ret.should_lock =
         (IF assess.orc.should_lock.t = "bool"
          THEN assess.orc.should_lock.v = 1
          ELSE /\ assess.ret.understanding_confidence >= LockConfidence
               /\ StudentResponses(assess.ret.handed) # {}
               /\ Cardinality(TeachingTurns(assess.ret.handed)) < EnoughTeaching)

\* the student turns and the substantial-teaching tutor turns among the first p
StudentsUpTo(messages, p) == {i \in StudentResponses(messages) : i <= p}
TeachingUpTo(messages, p) == {i \in TeachingTurns(messages) : i <= p}
\* the places of the 3rd student turn and of the 2nd substantial-teaching turn
CutOffs(messages) ==
    {p \in StudentResponses(messages) :
        Cardinality(StudentsUpTo(messages, p)) = EnoughStudentTurns}
    \cup {p \in TeachingTurns(messages) :
        Cardinality(TeachingUpTo(messages, p)) = EnoughTeaching}
\* the prefix up to and including the first of them, the whole if there is none
PrefixToCutOff(messages) ==
    IF CutOffs(messages) = {} THEN messages
    ELSE SubSeq(messages, 1,
                CHOOSE p \in CutOffs(messages) : \A q \in CutOffs(messages) : p <= q)

\* C17: for a transcript with a student turn, the turns handed to the oracle
\* are the prefix up to and including whichever comes first, the 3rd student
\* turn or the 2nd substantial-teaching tutor turn (longer than 100
\* characters), and nothing after it.
C17_HandedPrefix ==
    (assess.pc \in {"returned", "merged"} /\ assess.ret.invoked)
    => assess.ret.handed = PrefixToCutOff(Called.messages)

\* the outcomes of a turn that answers with an error
Errors == {"Error500", "Raised"}
\* handler r's turn has ended in this step: it held the exchange's response
TurnEnded(r) == req[r].pc = "responded" /\ req'[r] # req[r]

\* C18: each successfully executed turn extends the transcript by exactly two
\* entries, the tutor message sent then the student reply received, sets
\* turn_count to the response's turn_number and ended to its is_complete; no
\* other step of any operation appends to a transcript.
C18_TurnAppendsTwo ==
    [][\A o \in Slots :
          /\ (objs[o] = Free /\ objs'[o] # Free) => objs'[o].messages = <<>>
          /\ (objs[o] # Free /\ objs'[o] # Free)
             => IF last'.op \in TurnEnds /\ last'.obj = o /\ last'.outcome \notin Errors
                THEN \E r \in Reqs :
                       /\ TurnEnded(r)
                       /\ objs'[o].messages =
                            objs[o].messages
                            \o <<TutorTurn(req[r].tutor_message),
                                 StudentTurn(req[r].resp.student_response)>>
                       /\ objs'[o].turn_count = req[r].resp.turn_number
                       /\ objs'[o].conversation_ended = req[r].resp.is_complete
                ELSE objs'[o].messages = objs[o].messages]_vars

\* C19: within a turn the order is message, exchange, append, assessment: the
\* oracle is invoked only by the step that ends a turn, the exchange's response
\* in hand and the student reply appended, at most once per turn; and on the
\* first turn of a fresh conversation it is invoked, on the turn just appended.
C19_TurnOrdering ==
    [][/\ last'.oracle
          => /\ last'.op \in TurnEnds
             /\ \E r \in Reqs :
                  /\ TurnEnded(r)
                  /\ req[r].obj = last'.obj
                  /\ objs'[last'.obj].messages[Len(objs'[last'.obj].messages)] =
                       StudentTurn(req[r].resp.student_response)
       /\ last'.generated => \A r \in Reqs : req'[r] # req[r] => req'[r].pc = "sent"
       /\ (last'.op \in TurnEnds /\ objs[last'.obj].messages = <<>>)
          => /\ last'.oracle
             /\ objs'[last'.obj].understanding_level # None
             /\ objs'[last'.obj].should_lock # {}]_vars
\* the first turn of a conversation has just ended, the oracle invoked in it
C19_Witness ==
    /\ last.op \in TurnEnds
    /\ last.oracle
    /\ Len(objs[last.obj].messages) = 2
    /\ objs[last.obj].understanding_level # None

\* an explicit tutor message: a string that is not empty
Explicit(given) == given # NoMsg /\ given.len > 0

C21_OpenerIffNoStudentTurn ==
    (last.op = "begin" /\ last.generated)
    => (last.opener <=> StudentResponses(objs[last.obj].messages) = {})

\* C22: a failure of the generator is not propagated: when its chain raises in
\* an /interact turn, generate_tutoring returns the fixed fallback greeting and
\* the turn goes on to the exchange with that message.
C22_GeneratorFallback ==
    (last.op = "begin" /\ last.raised)
    => /\ last.outcome = "sent"
       /\ objs[last.obj].tutor_message = FallbackGreeting
       /\ \E r \in Reqs : /\ req[r].pc = "sent"
                          /\ req[r].obj = last.obj
                          /\ req[r].tutor_message = FallbackGreeting
\* a turn has ended whose tutor entry is the fallback greeting
C22_Witness ==
    /\ last.op = "resume"
    /\ last.outcome = "ok"
    /\ objs[last.obj].messages[Len(objs[last.obj].messages) - 1]
         = TutorTurn(FallbackGreeting)

\* the steps that create a record and store it
Creations == {"start", "batch_start"}

\* C23: creating a record under an id the store already holds fails with
\* AlreadyExists and leaves the record stored there untouched.
C23_CreateExistingFails ==
    [][(last'.op \in Creations /\ conversation_states[last'.cid] # 0)
       => /\ last'.outcome = "AlreadyExists"
          /\ conversation_states'[last'.cid] = conversation_states[last'.cid]
          /\ objs'[conversation_states[last'.cid]] = Record(last'.cid)]_vars

\* C24: a turn invoked for an id the store does not hold fails with NotFound,
\* invokes no generator and no oracle, starts no exchange and changes no record.
C24_AbsentIdNotFound ==
    [][(last'.op = "begin" /\ conversation_states[last'.cid] = 0)
       => /\ last'.outcome = "NotFound"
          /\ ~last'.generated /\ ~last'.oracle
          /\ UNCHANGED <<objs, conversation_states, req, srv, log_file>>]_vars
\* a turn on an absent id has just been refused, another conversation stored
\* and a turn of it in flight
C24_Witness ==
    /\ last.op = "begin"
    /\ last.outcome = "NotFound"
    /\ \E c \in ConvIds : conversation_states[c] # 0 /\ Record(c).messages # <<>>
    /\ \E r \in Reqs : req[r].pc = "responded"

\* the steps that write a record to the store
Puts == Creations \cup TurnEnds

\* C25: store round trip: after a record is written under its id, reading
\* that id gives the record written, field for field; and writing again a
\* record the store already holds under that id leaves the store as it was.
C25_StoreRoundTrip ==
    [][/\ last'.op \in Puts
          => /\ conversation_states'[last'.cid] = last'.obj
             /\ objs'[last'.obj] # Free
             /\ objs'[conversation_states'[last'.cid]].conversation_id = last'.cid
       /\ (last'.op \in TurnEnds /\ conversation_states[last'.cid] = last'.obj)
          => conversation_states' = conversation_states
       /\ \A c \in ConvIds :
            conversation_states'[c] # 0
            => Stored(conversation_states', c, conversation_states'[c])
                 = conversation_states']_vars
\* a second turn has written its record back and the store holds it, with
\* both exchanges in its transcript
C25_Witness ==
    /\ last.op = "resume"
    /\ conversation_states[last.cid] = last.obj
    /\ last.obj = 1
    /\ objs[2] = Free
    /\ Len(objs[1].messages) = 4

\* s is a prefix of t
IsPrefix(s, t) == Len(s) <= Len(t) /\ SubSeq(t, 1, Len(s)) = s

\* C27: the transcript of a record is append-only: in every step of every
\* operation the transcript the store held under an id before the step is a
\* prefix of the transcript it holds under that id after the step.
C27_TranscriptAppendOnly ==
    [][\A c \in ConvIds :
         (conversation_states[c] # 0 /\ conversation_states'[c] # 0)
         => IsPrefix(Record(c).messages, Record(c)'.messages)]_vars

\* C28: a turn that ends without error appends exactly one entry to the log,
\* carrying the whole transcript and the understanding level of the record as
\* they stand after the turn's assessment; every other step (a rejected turn,
\* a failed exchange, a start, a step of the interlocutor) appends nothing.
C28_OneLogRecordPerTurn ==
    [][IF last'.op \in TurnEnds /\ last'.outcome \notin Errors
       THEN /\ Len(log_file') = Len(log_file) + 1
            /\ SubSeq(log_file', 1, Len(log_file)) = log_file
            /\ LET e == log_file'[Len(log_file')]
                    state == objs'[last'.obj]
               IN /\ e.conversation_id = last'.cid
                  /\ e.messages = state.messages
                  /\ e.understanding_level = state.understanding_level
       ELSE log_file' = log_file]_vars
\* a second entry has been logged by a turn whose assessment set the level
C28_Witness ==
    /\ last.op \in TurnEnds
    /\ last.outcome \notin Errors
    /\ last.oracle
    /\ Len(log_file) = 2
    /\ log_file[2].understanding_level # None
    /\ Len(log_file[2].messages) = 4

\* C26: conversations are independent: a step of a start or of a turn for one
\* id leaves the store's entry and the record of every other id as they were,
\* however the operations on the two ids interleave.
C26_Independent ==
    [][\A b \in ConvIds :
         (b # last'.cid /\ conversation_states[b] # 0)
         => /\ conversation_states'[b] = conversation_states[b]
            /\ objs'[conversation_states[b]] = objs[conversation_states[b]]]_vars
\* a turn on one id has ended while a turn on the other id, whose record holds
\* an exchange already, is in flight
C26_Witness ==
    /\ last.op \in TurnEnds
    /\ \E b \in ConvIds, r \in Reqs :
         /\ b # last.cid
         /\ conversation_states[b] # 0
         /\ req[r].cid = b
         /\ req[r].pc \in {"sent", "responded"}
         /\ Record(last.cid).messages # <<>>

\* a record is terminal: it has ended or has reached its turn limit
IsTerminal(state) == state.conversation_ended \/ state.turn_count >= state.max_turns
\* the outcomes with which the precondition of a turn rejects a stored record
Rejections == {"ConversationEnded", "TurnLimitReached"}

\* C29: the terminal predicate is the same wherever it is evaluated:
\* should_continue returns "end" exactly for the states that have ended or
\* have reached their turn limit, the precondition of a turn rejects exactly
\* the stored records in that case, and so the two agree on every record.
C29_TerminalPredicate ==
    [][/\ (graph' # graph /\ graph'.from = "generate_tutoring")
          => (graph'.route = "end" <=> IsTerminal(graph'.state))
       /\ (last'.op = "begin" /\ last' # last /\ conversation_states[last'.cid] # 0)
          => (last'.outcome \in Rejections <=> IsTerminal(Record(last'.cid)))
       /\ \A c \in ConvIds :
            conversation_states'[c] # 0
            => (ShouldContinue(Record(c)') = "end" <=> Precondition(c)' \in Rejections)]_vars
\* should_continue has ended a run of the graph on a record that has reached
\* its turn limit without having ended, and a turn on that record was rejected
C29_Witness ==
    /\ graph.node = "END"
    /\ graph.from = "generate_tutoring"
    /\ ~graph.state.conversation_ended
    /\ last.op = "begin"
    /\ last.outcome = "TurnLimitReached"
    /\ graph.cid = last.cid
    /\ graph.state.messages = Record(last.cid).messages

\* the items of a list
ItemsOf(items) == {items[i] : i \in 1..Len(items)}

\* C30: create_item on a list of n items answers 201 with the new item, whose
\* id is n + 1 (1 on the empty list); the item is in the list afterwards, and
\* get_items, which returns the list, returns it when called next.
C30_CreateItemId ==
    [][/\ last'.op = "create_item"
          => /\ last'.outcome = "201"
             /\ last'.returned.id = Len(items_db) + 1
             /\ items_db = <<>> => last'.returned.id = 1
             /\ last'.returned \in ItemsOf(items_db')
       /\ last'.op = "get_items" => last'.returned = items_db
       /\ (last.op = "create_item" /\ last'.op = "get_items")
          => last.returned \in ItemsOf(last'.returned)]_vars
\* an item was created on a list of one item left by a deletion and get_items
\* then returned both
C30_Witness ==
    /\ last.op = "get_items"
    /\ Len(last.returned) = 2
    /\ last.returned[1].id = 2
    /\ last.returned[2].id = 2

\* the steps of run_tutoring_conversation
BatchOps == {"batch_start", "batch_resume"}

\* C31: run_tutoring_conversation terminates, and with the interlocutor
\* numbering the exchanges one by one it issues at most as many exchanges as
\* its max_turns argument and as the record's max_turns; it issues no exchange
\* on a record that has ended or reached its max_turns, nor after a response
\* that reported is_complete.
C31_BatchBounded ==
    /\ [][/\ \A r \in Reqs :
              /\ req'[r].kind = "batch"
                 => /\ req'[r].turn + 1 <= req'[r].limit
                    /\ req'[r].turn + 1 <= objs'[req'[r].obj].max_turns
              /\ (req[r].kind = "batch" /\ req[r].pc = "responded"
                    /\ req[r].resp.is_complete)
                 => req'[r].pc # "sent"
          /\ (last'.op \in BatchOps /\ last'.outcome = "sent")
             => /\ ~objs'[last'.obj].conversation_ended
                /\ objs'[last'.obj].turn_count < objs'[last'.obj].max_turns]_vars
    /\ \A r \in Reqs : (req[r].kind = "batch") ~> (req[r].pc = "idle")
\* a run has returned after two exchanges because its argument was two, on a
\* record that has not ended and is below its max_turns
C31_Witness ==
    /\ last.op = "batch_resume"
    /\ last.outcome = "returned"
    /\ \A r \in Reqs : req[r].pc = "idle"
    /\ ~Record(last.cid).conversation_ended
    /\ Record(last.cid).turn_count = 2
    /\ Record(last.cid).max_turns = 3
    /\ Len(Record(last.cid).messages) = 4

\* the level a run's conversation has in the store, None when the run stored
\* no record
FinalLevel(run) ==
    IF run.cid = "" THEN None ELSE Record(run.cid).understanding_level
\* a run that counts: it returned, and its conversation has a level
Counts(run) == run.outcome # "Raised" /\ FinalLevel(run) # None
\* one prediction for each run that counts, in the order of the runs
RECURSIVE ExpectedPredictions(_)
ExpectedPredictions(runs) ==
    IF runs = <<>> THEN <<>>
    ELSE LET n == Len(runs)
             before == ExpectedPredictions(SubSeq(runs, 1, n - 1))
         IN IF Counts(runs[n])
            THEN Append(before, [pair |-> runs[n].pair,
                                 predicted_level |-> FinalLevel(runs[n])])
            ELSE before
\* the predictions the runs made so far should have given
ExpectedNow == ExpectedPredictions(auto.runs)

\* C32: in automated_tutoring a conversation that fails does not stop the
\* batch: the loop goes on to the next pair, so that every pair has been run
\* when the loops end; the predictions then hold exactly one entry for each
\* pair whose conversation returned with a level set, and they are submitted,
\* all of them, exactly when there is one at least.
C32_BatchSurvivesFailure ==
    [][/\ last'.op = "auto_collect"
          => /\ auto'.pc = "next"
             /\ auto'.i = auto.i + 1
             /\ auto'.runs[auto.i].pair = AutoPairs[auto.i]
       /\ auto'.pc = "done"
          => /\ Len(auto'.runs) = Len(AutoPairs)
             /\ \A k \in 1..Len(AutoPairs) : auto'.runs[k].pair = AutoPairs[k]
             /\ auto'.all_predictions = ExpectedNow'
             /\ auto'.submit_called <=> auto'.all_predictions # <<>>
             /\ auto'.submit_called => auto'.submitted = auto'.all_predictions]_vars
\* the first pair's conversation failed after its level was assessed, the
\* second returned with a level, and the one prediction was submitted
C32_Witness ==
    /\ auto.pc = "done"
    /\ auto.runs[1].outcome = "Raised"
    /\ auto.runs[1].cid # ""
    /\ FinalLevel(auto.runs[1]) # None
    /\ Counts(auto.runs[2])
    /\ Len(auto.all_predictions) = 1
    /\ auto.submit_called

\* C33: log round trip: a get_conversations call without filters and without
\* limit, or with filters that match the entries, returns every entry that
\* log_conversation has appended.
C33_LogRoundTrip ==
    [][(/\ last'.op = "get_conversations"
        /\ last'.limit = None
        /\ last'.student_id \in {NoFilter, EntryStudent}
        /\ last'.topic_id \in {NoFilter, EntryTopic})
       => \A k \in 1..Len(log_file) :
            \E j \in 1..Len(last'.returned) : last'.returned[j] = log_file[k]]_vars

\* C34: start_tutoring for a student or a topic that is not in the
\* interlocutor's lists answers with the 404 NotFound raised for that case,
\* stores no record and starts no conversation on the interlocutor.
C34_StartAbsentNotFound ==
    [][(last'.op = "start_failed" /\ ~(last'.student_found /\ last'.topic_found))
       => /\ last'.outcome = "NotFound"
          /\ ~last'.started
          /\ UNCHANGED <<objs, conversation_states>>]_vars

\* the transcript has even length and its roles alternate, tutor first
Alternates(messages) ==
    /\ Len(messages) % 2 = 0
    /\ \A k \in 1..Len(messages) :
         messages[k].role = IF k % 2 = 1 THEN "tutor" ELSE "student"

\* C35: at every point between awaits, however the turns on a conversation
\* interleave, each record's transcript has even length and alternates tutor
\* and student, tutor first; and the two entries a step adds are the message
\* one handler sent and the reply the interlocutor gave to that message.
C35_TranscriptAlternates ==
    [][\A o \in Slots :
         objs'[o] # Free
         => /\ Alternates(objs'[o].messages)
            /\ (objs[o] # Free /\ objs'[o].messages # objs[o].messages)
               => \E r \in Reqs :
                    /\ TurnEnded(r)
                    /\ req[r].obj = o
                    /\ objs'[o].messages =
                         objs[o].messages
                         \o <<TutorTurn(req[r].tutor_message),
                              StudentTurn(req[r].resp.student_response)>>]_vars
\* a turn has ended and left two entries in a record on which another turn,
\* begun before, is still waiting to resume
C35_Witness ==
    /\ last.op \in TurnEnds
    /\ \E r \in Reqs :
         /\ req[r].pc = "responded"
         /\ req[r].obj = last.obj
         /\ Len(objs[last.obj].messages) = 2

\* the transcript has reached the cut-off: it holds a student turn that is the
\* 3rd, or that follows 2 substantial tutor turns
ReachedCutOff(messages) ==
    \E p \in StudentResponses(messages) :
        \/ Cardinality(StudentsUpTo(messages, p)) >= EnoughStudentTurns
        \/ Cardinality(TeachingUpTo(messages, p)) >= EnoughTeaching
\* the transcripts the conversation had after its earlier turns
EarlierTranscripts(messages) ==
    {SubSeq(messages, 1, n) : n \in {m \in 0..Len(messages) : m % 2 = 0}}

\* C36: the turns handed to the oracle are a prefix of the transcript; and if
\* the transcript had reached the cut-off after an earlier turn, the turns
\* handed now are the ones an assessment handed then, all of them within the
\* transcript of that time, whatever has been appended since.
C36_BaselinePrefix ==
    (assess.pc \in {"returned", "merged"} /\ assess.ret.invoked)
    => /\ IsPrefix(assess.ret.handed, Called.messages)
       /\ \A pre \in EarlierTranscripts(Called.messages) :
            ReachedCutOff(pre)
            => /\ IsPrefix(assess.ret.handed, pre)
               /\ assess.ret.handed = Filtered(pre).filtered
\* the fourth turn is assessed on a transcript that reached the cut-off with
\* its second turn, two substantial tutor messages having been sent
C36_Witness ==
    /\ assess.pc = "returned"
    /\ assess.ret.invoked
    /\ Len(Called.messages) = 8
    /\ ReachedCutOff(SubSeq(Called.messages, 1, 4))
    /\ Len(assess.ret.handed) = 4

\* a run of the graph is under way on a state that is not terminal
RunningNonTerminal ==
    /\ graph.node \in {"infer_understanding", "generate_tutoring"}
    /\ ~IsTerminal(graph.state)

\* C37: a run of tutoring_graph on a state that is not terminal, the fresh
\* state in particular, reaches END: its nodes and conditional edges do not
\* cycle for ever.
C37_GraphReachesEnd == RunningNonTerminal ~> (graph.node = "END")

\* C38: after any sequence of create_item, update_item and delete_item calls
\* no two items of the list have the same id, so that get_item, update_item
\* and delete_item address the one item created with an id.
C38_ItemIdsUnique ==
    \A i, j \in 1..Len(items_db) : items_db[i].id = items_db[j].id => i = j

====
